---------------------------- MODULE Spec2Model ----------------------------
(***************************************************************************)
(* Interface-counter pollers of the snmp-netconf-gnmi repository.          *)
(*                                                                         *)
(* Two monitors are modelled: SNMPMonitorEasy (configs/if-stats-snmp-      *)
(* full.py) and AristaNETCONFMonitor (configs/if-stats-netconf.py).  Which *)
(* of the two runs is fixed when the process starts (variable script).     *)
(*                                                                         *)
(* Strings.  Every counter travels through the scripts as a Python string. *)
(* A string is a record: Dec(n) is the decimal string str(n), Text(t) is   *)
(* any string int() does not accept.  int() is defined on Dec only; a      *)
(* caller must ask CanInt first, a FALSE answer is Python's ValueError.    *)
(*                                                                         *)
(* Time.  time.time() is the variable clock, in whole seconds.  The wall   *)
(* clock is not monotonic: ClockStep sets it back.                         *)
(***************************************************************************)
EXTENDS Integers, Sequences, FiniteSets

\* ------------------------------------------------------------------ bounds
\* Largest counter value a device answers with.
MaxCounter == 2
\* The loop body runs only while iteration < MaxIterations.
MaxIterations == 3

\* ------------------------------------------------------- program constants
POLL_INTERVAL == 5

\* ----------------------------------------------------------------- strings
Dec(n) == [dec |-> TRUE, n |-> n, s |-> ""]
Text(t) == [dec |-> FALSE, n |-> 0, s |-> t]
CanInt(v) == v.dec
int(v) == v.n

\* int(x / dt) for an int x and a float dt > 0: Python's int() rounds toward zero.
int_div(x, dt) == IF x >= 0 THEN x \div dt ELSE -((-x) \div dt)

\* A dict with string keys, from a set of <<key, value>> pairs.
Dict(pairs) == [k \in {p[1] : p \in pairs} |-> (CHOOSE p \in pairs : p[1] = k)[2]]
EmptyDict == Dict({})
\* d.get(k, default)
Get(d, k, default) == IF k \in DOMAIN d THEN d[k] ELSE default
\* Python truth value of a dict.
DictTruthy(d) == DOMAIN d # {}

\* An optional number: None is <<>>, the number t is <<t>>.
None == <<>>
Some(t) == <<t>>
\* Python truth value of an optional number: None and 0 are both false.
NumTruthy(o) == o # None /\ o[1] # 0

\* -------------------------------------------------------------- SNMP device
OID_ifHCInOctets == ".1.3.6.1.2.1.31.1.1.1.6"
OID_ifHCOutOctets == ".1.3.6.1.2.1.31.1.1.1.10"
OID_ifInOctets == ".1.3.6.1.2.1.2.2.1.10"
OID_ifOutOctets == ".1.3.6.1.2.1.2.2.1.16"

\* The <<field, OID>> reads of get_interface_stats, in the order of the code.
HCOctetFields ==
    << <<"in-octets", OID_ifHCInOctets>>, <<"out-octets", OID_ifHCOutOctets>> >>
HCPacketFields ==
    << <<"in-unicast-packets", ".1.3.6.1.2.1.31.1.1.1.7">>,
       <<"in-multicast-packets", ".1.3.6.1.2.1.31.1.1.1.8">>,
       <<"in-broadcast-packets", ".1.3.6.1.2.1.31.1.1.1.9">>,
       <<"out-unicast-packets", ".1.3.6.1.2.1.31.1.1.1.11">>,
       <<"out-multicast-packets", ".1.3.6.1.2.1.31.1.1.1.12">>,
       <<"out-broadcast-packets", ".1.3.6.1.2.1.31.1.1.1.13">> >>
LowFields ==
    << <<"in-octets", OID_ifInOctets>>,
       <<"out-octets", OID_ifOutOctets>>,
       <<"in-unicast-packets", ".1.3.6.1.2.1.2.2.1.11">>,
       <<"in-multicast-packets", ".1.3.6.1.2.1.2.2.1.12">>,
       <<"in-broadcast-packets", ".1.3.6.1.2.1.2.2.1.13">>,
       <<"out-unicast-packets", ".1.3.6.1.2.1.2.2.1.17">>,
       <<"out-multicast-packets", ".1.3.6.1.2.1.2.2.1.18">>,
       <<"out-broadcast-packets", ".1.3.6.1.2.1.2.2.1.19">> >>
OtherFields ==
    << <<"in-discarded-packets", ".1.3.6.1.2.1.2.2.1.13">>,
       <<"in-error-packets", ".1.3.6.1.2.1.2.2.1.14">>,
       <<"out-discarded-packets", ".1.3.6.1.2.1.2.2.1.19">>,
       <<"out-error-packets", ".1.3.6.1.2.1.2.2.1.20">>,
       <<"carrier-transitions", ".1.3.6.1.2.1.2.2.1.32">> >>
InfoFields ==
    << <<"interface-name", ".1.3.6.1.2.1.31.1.1.1.1">>,
       <<"interface-description", ".1.3.6.1.2.1.2.2.1.2">>,
       <<"operational-status", ".1.3.6.1.2.1.2.2.1.8">> >>

Range(seq) == {seq[i] : i \in 1..Len(seq)}
OidsOf(fields) == [i \in 1..Len(fields) |-> fields[i][2]]

\* What session.get(oid) does: it raises EasySNMPError, or returns an object
\* whose .value is a string.
Raises == [raises |-> TRUE, value |-> Text("")]
Returns(v) == [raises |-> FALSE, value |-> v]
NOSUCHINSTANCE == Text("NOSUCHINSTANCE")
NOSUCHOBJECT == Text("NOSUCHOBJECT")

\* The markers and failures a read of an octet counter can end in.
OddAnswers == {Returns(NOSUCHINSTANCE), Returns(NOSUCHOBJECT), Raises}
\* The pairs of answers to the two HC octet counters: every pair of numbers,
\* each odd answer on both counters and beside a number, and two mixtures
\* that get_snmp_value turns into "0" twice.
OctetAnswerPairs ==
    {<<Returns(Dec(i)), Returns(Dec(o))>> : i \in 0..MaxCounter, o \in 0..MaxCounter}
    \cup {<<a, a>> : a \in OddAnswers}
    \cup {<<a, Returns(Dec(1))>> : a \in OddAnswers}
    \cup {<<Returns(Dec(1)), a>> : a \in OddAnswers}
    \cup {<<Returns(NOSUCHINSTANCE), Returns(Dec(0))>>, <<Returns(Dec(0)), Raises>>}

\* The answers to every other OID come in three shapes.  "full": every counter
\* is there, each with a value of its own.  "partial": the multicast counters
\* are not instantiated and the error counters time out.  "garbled": the agent
\* answers the broadcast counters with the noSuchObject marker.  "down": the
\* agent is unreachable, every read times out.  "lopsided": the agent has no
\* ifHCOutBroadcastPkts and answers it with the noSuchObject marker.
Profiles == {"full", "partial", "garbled", "down", "lopsided"}
ProfiledOIDs == OidsOf(HCPacketFields \o LowFields \o OtherFields \o InfoFields)
OidNumber(oid) ==
    CHOOSE i \in 1..Len(ProfiledOIDs) :
        ProfiledOIDs[i] = oid /\ \A j \in 1..(i - 1) : ProfiledOIDs[j] # oid
ProfileAnswer(p, oid) ==
    IF p = "down"
    THEN Raises
    ELSE IF oid \in {".1.3.6.1.2.1.31.1.1.1.1", ".1.3.6.1.2.1.2.2.1.2"}
    THEN Returns(Text("Ethernet0/1"))
    ELSE IF p = "partial" /\ oid \in {".1.3.6.1.2.1.31.1.1.1.8", ".1.3.6.1.2.1.31.1.1.1.12",
                                      ".1.3.6.1.2.1.2.2.1.12", ".1.3.6.1.2.1.2.2.1.18"}
    THEN Returns(NOSUCHINSTANCE)
    ELSE IF p = "partial" /\ oid \in {".1.3.6.1.2.1.2.2.1.14", ".1.3.6.1.2.1.2.2.1.20"}
    THEN Raises
    ELSE IF p = "garbled" /\ oid \in {".1.3.6.1.2.1.31.1.1.1.9", ".1.3.6.1.2.1.31.1.1.1.13",
                                      ".1.3.6.1.2.1.2.2.1.13", ".1.3.6.1.2.1.2.2.1.19"}
    THEN Returns(NOSUCHOBJECT)
    ELSE IF p = "lopsided" /\ oid = ".1.3.6.1.2.1.31.1.1.1.13"
    THEN Returns(NOSUCHOBJECT)
    ELSE Returns(Dec(OidNumber(oid)))

\* One snapshot of the agent, the answers it gives during one poll cycle: to
\* the two HC octet counters, to the two 32-bit octet counters, and the shape
\* of the rest.
SnmpDevice(hi, ho, li, lo, p) ==
    [hc_in |-> hi, hc_out |-> ho, lo_in |-> li, lo_out |-> lo, profile |-> p]
\* session.get(oid) against the snapshot dev.
session_get(dev, oid) ==
    IF oid = OID_ifHCInOctets THEN dev.hc_in
    ELSE IF oid = OID_ifHCOutOctets THEN dev.hc_out
    ELSE IF oid = OID_ifInOctets THEN dev.lo_in
    ELSE IF oid = OID_ifOutOctets THEN dev.lo_out
    ELSE ProfileAnswer(dev.profile, oid)

\* Whether get_snmp_value turns the answer into "0".
ZeroAnswer(a) == a.raises \/ a.value \in {NOSUCHINSTANCE, Dec(0)}
\* The snapshots a poll cycle is run against.  Every pair of HC answers occurs
\* with the "full" shape; the 32-bit octet counters vary where the cycle reads
\* them; "partial" and "garbled" occur with one HC branch and one fallback
\* branch each, "down" with every read timing out, "lopsided" with the HC
\* branch.
SnmpDevices ==
    {SnmpDevice(pair[1], pair[2], Returns(Dec(MaxCounter)), Returns(Dec(MaxCounter)), "full") :
        pair \in OctetAnswerPairs}
    \cup {SnmpDevice(a, a, Returns(Dec(0)), Returns(Dec(0)), "full") :
            a \in {Returns(Dec(0)), Returns(NOSUCHINSTANCE)}}
    \cup {SnmpDevice(Returns(Dec(h)), Returns(Dec(h)), Returns(Dec(MaxCounter)),
                     Returns(Dec(MaxCounter)), p) : h \in {0, 1}, p \in {"partial", "garbled"}}
    \cup {SnmpDevice(Raises, Raises, Raises, Raises, "down")}
    \cup {SnmpDevice(Returns(Dec(1)), Returns(Dec(1)), Returns(Dec(MaxCounter)),
                     Returns(Dec(MaxCounter)), "lopsided")}

\* ------------------------------------------------------------ SNMP adapters
\* SNMPMonitorEasy.get_snmp_value, given what session.get did.
get_snmp_value(result) ==
    IF result.raises THEN Dec(0)
    ELSE IF result.value # NOSUCHINSTANCE THEN result.value
    ELSE Dec(0)

\* The stats entries read from a table of <<field, OID>> pairs.
ReadFields(dev, fields) ==
    {<<fields[i][1], get_snmp_value(session_get(dev, fields[i][2]))>> : i \in 1..Len(fields)}

\* int(a) + int(b) + int(c) as a string, or the marker of the except branch.
Total3(a, b, c) ==
    IF CanInt(a) /\ CanInt(b) /\ CanInt(c) THEN Dec(int(a) + int(b) + int(c)) ELSE Text("ValueError")

\* A different test: the HC sample is used only if both HC octet values are non-zero.
UseHC_both(hc_in_octets, hc_out_octets) == hc_in_octets # Dec(0) /\ hc_out_octets # Dec(0)

\* The test that picks the high-capacity branch of get_interface_stats.
UseHC(hc_in_octets, hc_out_octets) == hc_in_octets # Dec(0) \/ hc_out_octets # Dec(0)

\* SNMPMonitorEasy.get_interface_stats: the stats dict and the <<field, OID>>
\* reads, in order.
snmp_get_interface_stats(dev) ==
    LET hc_in_octets == get_snmp_value(session_get(dev, OID_ifHCInOctets))
        hc_out_octets == get_snmp_value(session_get(dev, OID_ifHCOutOctets))
        hc == UseHC(hc_in_octets, hc_out_octets)
        counters ==
            IF hc
            THEN {<<"in-octets", hc_in_octets>>, <<"out-octets", hc_out_octets>>}
                 \cup ReadFields(dev, HCPacketFields)
            ELSE ReadFields(dev, LowFields)
        read == counters \cup ReadFields(dev, OtherFields)
        st == Dict(read)
        in_total == Total3(st["in-unicast-packets"], st["in-multicast-packets"],
                           st["in-broadcast-packets"])
        out_total == Total3(st["out-unicast-packets"], st["out-multicast-packets"],
                            st["out-broadcast-packets"])
        totals ==
            IF CanInt(in_total) /\ CanInt(out_total)
            THEN {<<"in-packets", in_total>>, <<"out-packets", out_total>>}
            ELSE {<<"in-packets", Dec(0)>>, <<"out-packets", Dec(0)>>}
    IN  [stats |-> Dict(read \cup totals \cup ReadFields(dev, InfoFields)),
         reads |-> HCOctetFields \o (IF hc THEN HCPacketFields ELSE LowFields)
                   \o OtherFields \o InfoFields]

\* --------------------------------------------------------------- SNMP rates
\* SNMPMonitorEasy.calculate_traffic_rate: the dict returned and the two
\* attributes as the call leaves them.
calculate_traffic_rate(current_stats, current_time, p_stats, p_timestamp) ==
    LET ci == Get(current_stats, "in-octets", Dec(0))
        co == Get(current_stats, "out-octets", Dec(0))
        pi == Get(p_stats, "in-octets", Dec(0))
        po == Get(p_stats, "out-octets", Dec(0))
        time_diff == current_time - p_timestamp[1]
        in_diff == int(ci) - int(pi)
        out_diff == int(co) - int(po)
        computed ==
            /\ DictTruthy(p_stats) /\ NumTruthy(p_timestamp)
            /\ time_diff > 0
            /\ CanInt(ci) /\ CanInt(pi) /\ CanInt(co) /\ CanInt(po)
    IN  [traffic_rate |->
            IF computed
            THEN Dict({<<"in-bps", Dec(int_div(in_diff * 8, time_diff))>>,
                       <<"out-bps", Dec(int_div(out_diff * 8, time_diff))>>})
            ELSE Dict({<<"in-bps", Dec(0)>>, <<"out-bps", Dec(0)>>}),
         prev_stats |-> current_stats,
         prev_timestamp |-> Some(current_time)]

\* ----------------------------------------------------------- NETCONF device
\* What manager.get(filter) followed by the parser sees.  kind "error": the
\* call raises (timeout, RPC error); "empty": the reply is <data/>; "missing":
\* the reply lacks the interface, its name or its counters element; "ok": the
\* counters element is there.
OcLeaves ==
    {"in-octets", "out-octets", "in-unicast-pkts", "out-unicast-pkts",
     "in-broadcast-pkts", "out-broadcast-pkts", "in-multicast-pkts",
     "out-multicast-pkts", "in-discards", "out-discards", "in-errors", "out-errors"}
LeafNumber(leaf) ==
    CASE leaf = "in-unicast-pkts" -> 3 [] leaf = "out-unicast-pkts" -> 4
      [] leaf = "in-broadcast-pkts" -> 5 [] leaf = "out-broadcast-pkts" -> 6
      [] leaf = "in-multicast-pkts" -> 7 [] leaf = "out-multicast-pkts" -> 8
      [] leaf = "in-discards" -> 9 [] leaf = "out-discards" -> 10
      [] leaf = "in-errors" -> 11 [] leaf = "out-errors" -> 12
      [] OTHER -> 0
NcProfiles == {"full", "partial"}
\* A reply: its kind, the texts of the two octet leaves, the shape of the rest
\* ("partial": the multicast and error leaves are absent).
NcFailure(k) == [kind |-> k, in |-> Text(""), out |-> Text(""), profile |-> "full"]
NcOk(i, o, p) == [kind |-> "ok", in |-> i, out |-> o, profile |-> p]
\* The text of a leaf of the reply, "" when it is absent or empty.
LeafText(reply, leaf) ==
    IF leaf = "in-octets" THEN reply.in
    ELSE IF leaf = "out-octets" THEN reply.out
    ELSE IF leaf = "name" THEN Text("Ethernet1")
    ELSE IF leaf = "oper-status" THEN Text("up")
    ELSE IF reply.profile = "partial" /\ leaf \in {"in-multicast-pkts", "out-multicast-pkts",
                                                    "in-errors", "out-errors"}
    THEN Text("")
    ELSE IF leaf \in OcLeaves THEN Dec(LeafNumber(leaf))
    ELSE Text("")
\* The OpenConfig replies: the three failures, every pair of octet counts,
\* octet leaves that are absent, the partial shape, and an in-octets leaf
\* whose text is no number.
OcReplies ==
    {NcFailure(k) : k \in {"error", "empty", "missing"}}
    \cup {NcOk(Dec(i), Dec(o), "full") : i \in 0..MaxCounter, o \in 0..MaxCounter}
    \cup {NcOk(Text(""), Text(""), "full"), NcOk(Text(""), Dec(1), "full"),
          NcOk(Dec(1), Dec(1), "partial"), NcOk(Text("n/a"), Dec(1), "full")}
\* The IETF replies.
IetfReplies ==
    {NcFailure(k) : k \in {"error", "missing"}}
    \cup {NcOk(Dec(i), Dec(o), "full") : i \in {0, MaxCounter}, o \in {0, MaxCounter}}
    \cup {NcOk(Text("n/a"), Dec(1), "full")}
\* The snapshots a poll cycle is run against: the IETF reply varies beside
\* three of the OpenConfig replies that make the cycle ask for it.
NetconfDevices ==
    {[oc |-> oc, ietf |-> NcOk(Dec(MaxCounter), Dec(MaxCounter), "full")] : oc \in OcReplies}
    \cup {[oc |-> oc, ietf |-> ietf] :
            oc \in {NcFailure("error"), NcOk(Dec(0), Dec(0), "full"), NcOk(Dec(0), Dec(1), "full")},
            ietf \in IetfReplies}

\* --------------------------------------------------------- NETCONF adapters
\* None where the code expects a dict: the code tests it for truth only.
NoStats == EmptyDict

\* AristaNETCONFMonitor.get_element_text
get_element_text(reply, tag_name) == LeafText(reply, tag_name)
\* Python's  s or "0"
OrZero(s) == IF s = Text("") THEN Dec(0) ELSE s

\* The part of both parsers after the stats dict is built: the two totals.
WithTotals(st) ==
    LET in_total == Total3(st["in-unicast-pkts"], st["in-multicast-pkts"], st["in-broadcast-pkts"])
        out_total == Total3(st["out-unicast-pkts"], st["out-multicast-pkts"], st["out-broadcast-pkts"])
        totals ==
            IF CanInt(in_total) /\ CanInt(out_total)
            THEN {<<"in-packets", in_total>>, <<"out-packets", out_total>>}
            ELSE {<<"in-packets", Dec(0)>>, <<"out-packets", Dec(0)>>}
    IN  Dict({<<k, st[k]>> : k \in DOMAIN st} \cup totals)

\* AristaNETCONFMonitor.parse_openconfig_stats
parse_openconfig_stats(reply) ==
    IF reply.kind # "ok" \/ LeafText(reply, "name") = Text("")
    THEN NoStats
    ELSE WithTotals(Dict(
            {<<"interface-name", LeafText(reply, "name")>>, <<"model", Text("openconfig")>>}
            \cup {<<leaf, OrZero(get_element_text(reply, leaf))>> : leaf \in OcLeaves}))

\* AristaNETCONFMonitor.get_interface_stats_openconfig
get_interface_stats_openconfig(reply) ==
    IF reply.kind = "error" THEN NoStats ELSE parse_openconfig_stats(reply)

\* AristaNETCONFMonitor.parse_ietf_stats
parse_ietf_stats(reply, interface_name) ==
    IF reply.kind # "ok"
    THEN NoStats
    ELSE WithTotals(Dict(
            {<<"interface-name",
               IF get_element_text(reply, "name") = Text("")
               THEN Text(interface_name) ELSE get_element_text(reply, "name")>>,
             <<"model", Text("ietf")>>,
             <<"oper-status",
               IF get_element_text(reply, "oper-status") = Text("")
               THEN Text("unknown") ELSE get_element_text(reply, "oper-status")>>}
            \cup {<<leaf, OrZero(get_element_text(reply, leaf))>> : leaf \in OcLeaves}))

\* AristaNETCONFMonitor.get_interface_stats_ietf
get_interface_stats_ietf(reply, interface_name) ==
    IF reply.kind = "error" THEN NoStats ELSE parse_ietf_stats(reply, interface_name)

\* AristaNETCONFMonitor.get_interface_stats: the dict returned, the adapters
\* called in order, and whether int() raised ValueError on the way.
netconf_get_interface_stats(dev, interface_name) ==
    LET oc == get_interface_stats_openconfig(dev.oc)
        oc_in == Get(oc, "in-octets", Dec(0))
        raised == DictTruthy(oc) /\ ~CanInt(oc_in)
        fallback == ~DictTruthy(oc) \/ (CanInt(oc_in) /\ int(oc_in) = 0)
        stats == IF fallback THEN get_interface_stats_ietf(dev.ietf, interface_name) ELSE oc
    IN  [raised |-> raised,
         calls |-> IF fallback THEN <<"openconfig", "ietf">> ELSE <<"openconfig">>,
         stats |->
            IF raised THEN NoStats
            ELSE IF DictTruthy(stats) THEN stats
            ELSE Dict({<<"interface-name", Text(interface_name)>>, <<"model", Text("no-data")>>,
                       <<"in-octets", Dec(0)>>, <<"out-octets", Dec(0)>>,
                       <<"in-packets", Dec(0)>>, <<"out-packets", Dec(0)>>})]

\* AristaNETCONFMonitor.calculate_traffic_rate; current_time is the time.time()
\* the method reads on entry.
netconf_calculate_traffic_rate(stats, current_time, p_stats, p_time) ==
    LET in_now == Get(stats, "in-octets", Dec(0))
        out_now == Get(stats, "out-octets", Dec(0))
        in_prev == Get(p_stats, "in-octets", Dec(0))
        out_prev == Get(p_stats, "out-octets", Dec(0))
        time_diff == current_time - p_time[1]
        computed ==
            /\ DictTruthy(p_stats) /\ NumTruthy(p_time)
            /\ time_diff > 0
            /\ CanInt(in_now) /\ CanInt(out_now) /\ CanInt(in_prev) /\ CanInt(out_prev)
    IN  [traffic_rate |->
            IF computed
            THEN Dict({<<"in-bps", Dec(int_div((int(in_now) - int(in_prev)) * 8, time_diff))>>,
                       <<"out-bps", Dec(int_div((int(out_now) - int(out_prev)) * 8, time_diff))>>})
            ELSE Dict({<<"in-bps", Dec(0)>>, <<"out-bps", Dec(0)>>}),
         prev_stats |-> stats,
         prev_time |-> Some(current_time)]

\* ------------------------------------------------------------------ output
TARGET == "172.100.100.5"
HOST == "172.100.100.7:830"

\* SNMPMonitorEasy.format_output.  timestamp stays in seconds: the code writes
\* int(timestamp * 1000000000) and the same instant as an RFC 3339 string.
snmp_format_output(stats_type, data, timestamp, index) ==
    [source |-> TARGET,
     subscription_name |-> "snmp-if-stats",
     timestamp |-> timestamp,
     updates |-> << [Path |-> <<"IF-MIB:interface", "index", index, stats_type>>,
                     block |-> stats_type,
                     values |-> data] >>]

\* The keys of statistics_data in format_output, and the key of stats each is
\* taken from.
StatisticsNames ==
    {"in-octets", "out-octets", "in-packets", "out-packets", "in-unicast-packets",
     "out-unicast-packets", "in-multicast-packets", "out-multicast-packets",
     "in-broadcast-packets", "out-broadcast-packets", "in-error-packets",
     "out-error-packets", "in-discarded-packets", "out-discarded-packets",
     "oper-status", "model"}
StatsKey(name) ==
    CASE name = "in-unicast-packets" -> "in-unicast-pkts"
      [] name = "out-unicast-packets" -> "out-unicast-pkts"
      [] name = "in-multicast-packets" -> "in-multicast-pkts"
      [] name = "out-multicast-packets" -> "out-multicast-pkts"
      [] name = "in-broadcast-packets" -> "in-broadcast-pkts"
      [] name = "out-broadcast-packets" -> "out-broadcast-pkts"
      [] name = "in-error-packets" -> "in-errors"
      [] name = "out-error-packets" -> "out-errors"
      [] name = "in-discarded-packets" -> "in-discards"
      [] name = "out-discarded-packets" -> "out-discards"
      [] OTHER -> name

\* A different record: the paths name the interface of the configuration
\* (INTERFACE_NAME), not the one the monitor polls.
netconf_format_output_configured(stats, traffic_rate, timestamp, interface_name) ==
    LET statistics_data ==
            [name \in StatisticsNames |->
                Get(stats, StatsKey(name),
                    IF name \in {"oper-status", "model"} THEN Text("unknown") ELSE Dec(0))]
        traffic_rate_data ==
            [name \in {"in-bps", "out-bps"} |-> traffic_rate[name]]
    IN  [source |-> HOST,
         subscription_name |-> "netconf-if-stats",
         timestamp |-> timestamp,
         updates |-> << [Path |-> <<"openconfig-interfaces:interface", "name",
                                    "Ethernet1", "statistics">>,
                         block |-> "statistics",
                         values |-> statistics_data],
                        [Path |-> <<"openconfig-interfaces:interface", "name",
                                    "Ethernet1", "traffic-rate">>,
                         block |-> "traffic-rate",
                         values |-> traffic_rate_data] >>]

\* AristaNETCONFMonitor.format_output: one record with both metric blocks.
netconf_format_output(stats, traffic_rate, timestamp, interface_name) ==
    LET statistics_data ==
            [name \in StatisticsNames |->
                Get(stats, StatsKey(name),
                    IF name \in {"oper-status", "model"} THEN Text("unknown") ELSE Dec(0))]
        traffic_rate_data ==
            [name \in {"in-bps", "out-bps"} |-> traffic_rate[name]]
    IN  [source |-> HOST,
         subscription_name |-> "netconf-if-stats",
         timestamp |-> timestamp,
         updates |-> << [Path |-> <<"openconfig-interfaces:interface", "name",
                                    interface_name, "statistics">>,
                         block |-> "statistics",
                         values |-> statistics_data],
                        [Path |-> <<"openconfig-interfaces:interface", "name",
                                    interface_name, "traffic-rate">>,
                         block |-> "traffic-rate",
                         values |-> traffic_rate_data] >>]

\* What each snapshot makes get_interface_stats return (the adapters read
\* nothing but the device, so this is worked out once per snapshot).
\* The interface names the monitor is constructed with: the default of main,
\* and a name typed at its prompt.
InterfaceNames == {"Ethernet1", "Ethernet2"}
SnmpPolls == [dev \in SnmpDevices |-> snmp_get_interface_stats(dev)]
NetconfPolls ==
    [dev \in NetconfDevices, name \in InterfaceNames |-> netconf_get_interface_stats(dev, name)]

\* ------------------------------------------------------------------- state
VARIABLES
    script,          \* which monitor this process runs: "snmp" or "netconf"
    startup,         \* what connect() and test_connection() returned when monitor() began
    state,           \* "Idle" before monitor(), "Polling" in its loop, "Stopped" after
    clock,           \* time.time()
    start_time,      \* monitor's start_time
    iteration,       \* monitor's iteration
    passes,          \* the passes of the loop body begun so far
    duration,        \* monitor's duration argument, None or a number of seconds
    interface_index, \* SNMPMonitorEasy.interface_index
    interface,       \* AristaNETCONFMonitor.interface
    prev_stats,      \* self.prev_stats
    prev_timestamp,  \* SNMPMonitorEasy.prev_timestamp
    prev_time,       \* AristaNETCONFMonitor.prev_time
    sink,            \* OUTPUT_FILE: "unopened", "open" inside the with block, "closed" after
    dirty,           \* whether records were written to f that no flush or close followed
    f,               \* the records the latest pass of the loop appended to OUTPUT_FILE
    last             \* the latest pass of the loop: its inputs (dev, event, elapsed) and what
                     \* it did (polled: get_interface_stats ran to its end; raised: it
                     \* raised; computed: calculate_traffic_rate was called), and the
                     \* latest well-formed sample up to it (good)

vars == <<script, startup, state, clock, start_time, iteration, passes, duration, interface_index,
          interface, prev_stats, prev_timestamp, prev_time, sink, dirty, f, last>>

\* Seconds a pass of the loop spends before it reads the clock again: none, a
\* whole interval, or two (an overrun).
Elapsed == {0, POLL_INTERVAL, 2 * POLL_INTERVAL}
\* The duration arguments monitor is called with.
Durations == {None, Some(POLL_INTERVAL)}
\* Seconds the wall clock is set back by.
ClockSteps == {POLL_INTERVAL, 2 * POLL_INTERVAL}

\* What can happen to a pass of the loop from outside.  "none": nothing.
\* "int-fetch": Ctrl+C while get_interface_stats runs.  "int-mid": Ctrl+C after
\* the first half of the pass (SNMP: the statistics record is written; NETCONF:
\* calculate_traffic_rate has returned) and before its next write.  "write-1",
\* "write-2": the first / second record's json.dump raises OSError.
SnmpEvents == {"none", "int-fetch", "int-mid", "write-1", "write-2"}
NetconfEvents == {"none", "int-fetch", "int-mid", "write-1"}
\* The passes of the loop: against every snapshot a pass that nothing happens
\* to and that takes no time to speak of; against one snapshot a pass that
\* takes a whole interval, with every event, and a pass that overruns.
SnmpPasses ==
    (SnmpDevices \X ({0} \X {"none"}))
    \cup ({SnmpDevice(Returns(Dec(1)), Returns(Dec(1)), Returns(Dec(MaxCounter)),
                      Returns(Dec(MaxCounter)), "full")}
          \X (({2 * POLL_INTERVAL} \X {"none"}) \cup ({POLL_INTERVAL} \X SnmpEvents)))
NetconfPasses ==
    (NetconfDevices \X ({0} \X {"none"}))
    \cup ({[oc |-> NcOk(Dec(1), Dec(1), "full"),
            ietf |-> NcOk(Dec(MaxCounter), Dec(MaxCounter), "full")]}
          \X (({2 * POLL_INTERVAL} \X {"none"}) \cup ({POLL_INTERVAL} \X NetconfEvents)))

\* Both octet counters of a sample are decimal numbers.
Numeric(st) == CanInt(Get(st, "in-octets", Dec(0))) /\ CanInt(Get(st, "out-octets", Dec(0)))
\* The latest sample given to calculate_traffic_rate whose octet counters are
\* numbers, the time of that call, and the calls made since (history, no
\* attribute of the monitors).
NoGood == [stats |-> EmptyDict, now |-> 0, since |-> 0]
Good(called, stats, now, before) ==
    IF called /\ Numeric(stats) THEN [stats |-> stats, now |-> now, since |-> 0]
    ELSE IF called /\ DictTruthy(before.stats)
    THEN [stats |-> before.stats, now |-> before.now, since |-> before.since + 1]
    ELSE before

\* Before monitor() is called nothing was connected or tested.
NotStarted == [connected |-> FALSE, tested |-> FALSE]

NoCycle ==
    [polled |-> FALSE, raised |-> FALSE, dev |-> <<>>, current_time |-> 0, now |-> 0,
     stats |-> EmptyDict,
     computed |-> FALSE, traffic_rate |-> EmptyDict, reads |-> <<>>, event |-> "none",
     outcome |-> "none", elapsed |-> 0, slept |-> None, good |-> NoGood]

Init ==
    /\ script \in {"snmp", "netconf"}
    /\ startup = NotStarted
    /\ state = "Idle"
    /\ clock = 0
    /\ start_time = 0
    /\ iteration = 0
    /\ passes = 0
    /\ duration = None
    /\ interface_index = 1
    /\ interface \in (IF script = "netconf" THEN InterfaceNames ELSE {"Ethernet1"})
    /\ prev_stats = EmptyDict
    /\ prev_timestamp = None
    /\ prev_time = None
    /\ sink = "unopened"
    /\ dirty = FALSE
    /\ f = <<>>
    /\ last = NoCycle

\* What discover_interfaces returns: [] when the request fails, else the names
\* the device lists.
Discovered == {<<>>, <<"Ethernet1">>}
\* if interfaces and self.interface not in interfaces: self.interface = interfaces[0]
selected_interface(current, interfaces) ==
    IF interfaces # <<>> /\ current \notin Range(interfaces) THEN interfaces[1] ELSE current

\* Whether monitor() goes on to its loop.  SNMPMonitorEasy has its session from
\* __init__ (which exits the process when it cannot be made) and returns when
\* test_connection() is false.  AristaNETCONFMonitor returns when connect() is
\* false; it calls test_connection() and does not look at what it returns.
Proceeds(connected, tested) == IF script = "snmp" THEN tested ELSE connected

\* monitor() up to its loop: the connection test, the discovery of the
\* interfaces (NETCONF), start_time, open(OUTPUT_FILE, 'w').
monitor_start(connected, tested, d, interfaces) ==
    /\ state = "Idle"
    /\ script = "snmp" => connected
    /\ ~connected => ~tested
    /\ startup' = [connected |-> connected, tested |-> tested]
    /\ IF Proceeds(connected, tested)
       THEN /\ state' = "Polling"
            /\ start_time' = clock
            /\ duration' = d
            /\ sink' = "open"
            /\ interface' = IF script = "netconf" THEN selected_interface(interface, interfaces)
                            ELSE interface
       ELSE /\ state' = "Stopped"
            /\ UNCHANGED <<start_time, duration, sink, interface>>
    /\ UNCHANGED <<script, clock, iteration, passes, interface_index, prev_stats,
                   prev_timestamp, prev_time, dirty, f, last>>

\* A different guard: the loop body also runs after the loop was left.
InLoop_after_break == state \in {"Polling", "Stopped"}

\* The guard of the loop: monitor is inside `while True`.
InLoop == state = "Polling"

\* sleep_time = interval - elapsed; time.sleep(sleep_time) if it is positive.
sleep_time(elapsed) == POLL_INTERVAL - elapsed
Slept(elapsed) == IF sleep_time(elapsed) > 0 THEN sleep_time(elapsed) ELSE 0
\* if duration and (current_time - start_time) >= duration
DurationReached(current_time) ==
    NumTruthy(duration) /\ current_time - start_time >= duration[1]

\* How a pass of the loop that started at current_time ends, elapsed seconds
\* later.  "completed": the body ran to the duration check, which breaks or
\* lets the pass sleep.  "KeyboardInterrupt": break.  "Exception": the SNMP
\* monitor's handler inside the loop sleeps a whole interval and goes on; the
\* NETCONF monitor's handler is outside the loop, which is left.  Leaving the
\* loop leaves the with block, which closes f.  The result is the sleep.
EndOfPass(outcome, current_time, elapsed) ==
    LET stops ==
            \/ outcome = "KeyboardInterrupt"
            \/ outcome = "Exception" /\ script = "netconf"
            \/ outcome = "completed" /\ DurationReached(current_time)
        slept ==
            IF stops THEN None
            ELSE IF outcome = "Exception" THEN Some(POLL_INTERVAL)
            ELSE Some(Slept(elapsed))
    IN  [stops |-> stops, slept |-> slept,
         clock |-> clock + elapsed + (IF slept = None THEN 0 ELSE slept[1])]

\* A different loop body: the rate of a pass is computed and written before its
\* statistics record.
snmp_loop_body_rate_first(dev, event, current_time, p_stats, p_timestamp) ==
    LET stats == SnmpPolls[dev].stats
        rate == calculate_traffic_rate(stats, current_time, p_stats, p_timestamp)
        stats_output == snmp_format_output("statistics", stats, current_time, interface_index)
        traffic_output ==
            snmp_format_output("traffic-rate", rate.traffic_rate, current_time, interface_index)
        untouched == [called |-> FALSE, prev_stats |-> p_stats, prev_timestamp |-> p_timestamp,
                      traffic_rate |-> EmptyDict]
        computed == [called |-> TRUE, prev_stats |-> rate.prev_stats,
                     prev_timestamp |-> rate.prev_timestamp, traffic_rate |-> rate.traffic_rate]
    IN  CASE event = "int-fetch" ->
                [outcome |-> "KeyboardInterrupt", written |-> <<>>, after |-> untouched]
          [] event = "int-mid" ->
                [outcome |-> "KeyboardInterrupt", written |-> <<traffic_output>>,
                 after |-> computed]
          [] event = "write-1" ->
                [outcome |-> "Exception", written |-> <<>>, after |-> computed]
          [] event = "write-2" ->
                [outcome |-> "Exception", written |-> <<traffic_output>>, after |-> computed]
          [] OTHER ->
                [outcome |-> "completed", written |-> <<traffic_output, stats_output>>,
                 after |-> computed]

\* The body of the loop of SNMPMonitorEasy.monitor up to iteration += 1, under
\* the event: what it wrote, the stored sample as it leaves it, how it ended.
snmp_loop_body(dev, event, current_time, p_stats, p_timestamp) ==
    LET stats == SnmpPolls[dev].stats
        rate == calculate_traffic_rate(stats, current_time, p_stats, p_timestamp)
        stats_output == snmp_format_output("statistics", stats, current_time, interface_index)
        traffic_output ==
            snmp_format_output("traffic-rate", rate.traffic_rate, current_time, interface_index)
        untouched == [called |-> FALSE, prev_stats |-> p_stats, prev_timestamp |-> p_timestamp,
                      traffic_rate |-> EmptyDict]
        computed == [called |-> TRUE, prev_stats |-> rate.prev_stats,
                     prev_timestamp |-> rate.prev_timestamp, traffic_rate |-> rate.traffic_rate]
    IN  CASE event = "int-fetch" ->
                [outcome |-> "KeyboardInterrupt", written |-> <<>>, after |-> untouched]
          [] event = "int-mid" ->
                [outcome |-> "KeyboardInterrupt", written |-> <<stats_output>>,
                 after |-> untouched]
          [] event = "write-1" ->
                [outcome |-> "Exception", written |-> <<>>, after |-> untouched]
          [] event = "write-2" ->
                [outcome |-> "Exception", written |-> <<stats_output>>, after |-> computed]
          [] OTHER ->
                [outcome |-> "completed", written |-> <<stats_output, traffic_output>>,
                 after |-> computed]

\* One pass of the loop of SNMPMonitorEasy.monitor.
snmp_monitor_cycle(dev, elapsed, event) ==
    /\ script = "snmp" /\ InLoop /\ passes < MaxIterations
    /\ \E current_time \in {clock} :
       \E body \in {snmp_loop_body(dev, event, current_time, prev_stats, prev_timestamp)} :
       \E end \in {EndOfPass(body.outcome, current_time, elapsed)} :
           /\ f' = body.written
           /\ prev_stats' = body.after.prev_stats
           /\ prev_timestamp' = body.after.prev_timestamp
           /\ iteration' = IF body.outcome = "completed" THEN iteration + 1 ELSE iteration
           /\ state' = IF end.stops THEN "Stopped" ELSE state
           /\ sink' = IF end.stops THEN "closed" ELSE sink
           /\ dirty' = IF end.stops \/ body.outcome = "completed" THEN FALSE
                       ELSE dirty \/ body.written # <<>>
           /\ clock' = end.clock
           /\ last' = [polled |-> event # "int-fetch", raised |-> FALSE, dev |-> dev,
                       current_time |-> current_time, now |-> current_time,
                       stats |-> IF event = "int-fetch" THEN EmptyDict ELSE SnmpPolls[dev].stats,
                       computed |-> body.after.called,
                       traffic_rate |-> body.after.traffic_rate,
                       reads |-> IF event = "int-fetch" THEN <<>> ELSE SnmpPolls[dev].reads,
                       event |-> event,
                       outcome |-> body.outcome, elapsed |-> elapsed, slept |-> end.slept,
                       good |-> Good(body.after.called, SnmpPolls[dev].stats, current_time,
                                     last.good)]
    /\ passes' = passes + 1
    /\ UNCHANGED <<script, startup, start_time, duration, interface_index, interface, prev_time>>

\* The body of the loop of AristaNETCONFMonitor.monitor up to iteration += 1.
\* int() raises ValueError on an octet text that is no number: inside
\* get_interface_stats, and in the console lines that follow the write.
netconf_loop_body(dev, event, now, current_time, p_stats, p_time) ==
    LET got == NetconfPolls[dev, interface]
        stats == got.stats
        rate == netconf_calculate_traffic_rate(stats, now, p_stats, p_time)
        output == netconf_format_output(stats, rate.traffic_rate, current_time, interface)
        untouched == [called |-> FALSE, prev_stats |-> p_stats, prev_time |-> p_time,
                      traffic_rate |-> EmptyDict]
        computed == [called |-> TRUE, prev_stats |-> rate.prev_stats, prev_time |-> rate.prev_time,
                     traffic_rate |-> rate.traffic_rate]
        console == CanInt(Get(stats, "in-octets", Dec(0))) /\ CanInt(Get(stats, "out-octets", Dec(0)))
    IN  CASE event = "int-fetch" ->
                [outcome |-> "KeyboardInterrupt", written |-> <<>>, after |-> untouched]
          [] got.raised ->
                [outcome |-> "Exception", written |-> <<>>, after |-> untouched]
          [] ~DictTruthy(stats) ->
                [outcome |-> "completed", written |-> <<>>, after |-> untouched]
          [] event = "int-mid" ->
                [outcome |-> "KeyboardInterrupt", written |-> <<>>, after |-> computed]
          [] event = "write-1" ->
                [outcome |-> "Exception", written |-> <<>>, after |-> computed]
          [] ~console ->
                [outcome |-> "Exception", written |-> <<output>>, after |-> computed]
          [] OTHER ->
                [outcome |-> "completed", written |-> <<output>>, after |-> computed]

\* One pass of the loop of AristaNETCONFMonitor.monitor.
netconf_monitor_cycle(dev, elapsed, event) ==
    /\ script = "netconf" /\ InLoop /\ passes < MaxIterations
    /\ \E current_time \in {clock}, now \in {clock + elapsed} :
       \E body \in {netconf_loop_body(dev, event, now, current_time, prev_stats, prev_time)} :
       \E end \in {EndOfPass(body.outcome, current_time, elapsed)} :
           /\ f' = body.written
           /\ prev_stats' = body.after.prev_stats
           /\ prev_time' = body.after.prev_time
           /\ iteration' = IF body.outcome = "completed" THEN iteration + 1 ELSE iteration
           /\ state' = IF end.stops THEN "Stopped" ELSE state
           /\ sink' = IF end.stops THEN "closed" ELSE sink
           /\ dirty' = FALSE
           /\ clock' = end.clock
           /\ last' = [polled |-> event # "int-fetch",
                       raised |-> event # "int-fetch" /\ NetconfPolls[dev, interface].raised,
                       dev |-> dev, current_time |-> current_time, now |-> now,
                       stats |-> IF event = "int-fetch" THEN EmptyDict
                                 ELSE NetconfPolls[dev, interface].stats,
                       computed |-> body.after.called,
                       traffic_rate |-> body.after.traffic_rate,
                       reads |-> IF event = "int-fetch" THEN <<>>
                                 ELSE NetconfPolls[dev, interface].calls,
                       event |-> event,
                       outcome |-> body.outcome, elapsed |-> elapsed, slept |-> end.slept,
                       good |-> Good(body.after.called, NetconfPolls[dev, interface].stats, now,
                                     last.good)]
    /\ passes' = passes + 1
    /\ UNCHANGED <<script, startup, start_time, duration, interface_index, interface, prev_timestamp>>

\* Ctrl+C while the loop sleeps: break, and the with block closes f.
KeyboardInterrupt ==
    /\ InLoop
    /\ state' = "Stopped"
    /\ sink' = "closed"
    /\ dirty' = FALSE
    /\ UNCHANGED <<script, startup, clock, start_time, iteration, passes, duration, interface_index,
                   interface, prev_stats, prev_timestamp, prev_time, f, last>>

\* The wall clock is set back by d seconds while the loop sleeps.
ClockStep(d) ==
    /\ InLoop /\ clock - d >= 0
    /\ clock' = clock - d
    /\ UNCHANGED <<script, startup, state, start_time, iteration, passes, duration, interface_index,
                   interface, prev_stats, prev_timestamp, prev_time, sink, dirty, f, last>>

Next ==
    \/ \E connected \in BOOLEAN, tested \in BOOLEAN, d \in Durations, interfaces \in Discovered :
          monitor_start(connected, tested, d, interfaces)
    \/ \E pass \in SnmpPasses : snmp_monitor_cycle(pass[1], pass[2][1], pass[2][2])
    \/ \E pass \in NetconfPasses : netconf_monitor_cycle(pass[1], pass[2][1], pass[2][2])
    \/ KeyboardInterrupt
    \/ \E d \in ClockSteps : ClockStep(d)

Spec == Init /\ [][Next]_vars

\* A pass of the loop of either monitor.
monitor_cycle ==
    \/ \E pass \in SnmpPasses : snmp_monitor_cycle(pass[1], pass[2][1], pass[2][2])
    \/ \E pass \in NetconfPasses : netconf_monitor_cycle(pass[1], pass[2][1], pass[2][2])
\* time.sleep returns and the calls to the device time out: a monitor inside
\* its loop goes on to the next pass.
FairSpec == Spec /\ WF_vars(monitor_cycle)

\* ------------------------------------------------------------------ claims
\* A step that is a pass of the loop body.
Passed == passes' = passes + 1
\* A pass of the loop body in which calculate_traffic_rate is called.
Cycled == Passed /\ last'.computed
\* The stored timestamp of the monitor that runs.
stored_timestamp == IF script = "snmp" THEN prev_timestamp ELSE prev_time
\* A previous sample is stored.
HasPrevious == DictTruthy(prev_stats) /\ stored_timestamp # None
InOctets(st) == int(Get(st, "in-octets", Dec(0)))
OutOctets(st) == int(Get(st, "out-octets", Dec(0)))
\* None where a rate is expected.
NoRate == EmptyDict
\* The quotient a / b, b > 0, rounded toward zero.
TowardZero(a, b) == IF a >= 0 THEN a \div b ELSE -((-a) \div b)
\* The traffic-rate blocks among the records rs.
RateBlocks(rs) ==
    UNION {{rs[i].updates[j].values :
               j \in {k \in 1..Len(rs[i].updates) : rs[i].updates[k].block = "traffic-rate"}} :
           i \in 1..Len(rs)}

\* C1: when the rate is computed against a previous sample with dt > 0 and the
\* current in-octets (out-octets) is below the previous one, the reported
\* in-bps (out-bps) is 0; no traffic-rate value written to the file is negative.
C1_NegativeDeltaClamped ==
    [][Cycled =>
        /\ (HasPrevious /\ last'.now - stored_timestamp[1] > 0
              /\ Numeric(last'.stats) /\ Numeric(prev_stats))
           => /\ InOctets(last'.stats) < InOctets(prev_stats)
                 => last'.traffic_rate["in-bps"] = Dec(0)
              /\ OutOctets(last'.stats) < OutOctets(prev_stats)
                 => last'.traffic_rate["out-bps"] = Dec(0)
        /\ \A block \in RateBlocks(f') : \A k \in DOMAIN block :
              CanInt(block[k]) => int(block[k]) >= 0]_vars

\* Every adapter failed against the snapshot dev: every SNMP octet read timed
\* out or met no instance; both NETCONF models returned nothing.
AllAdaptersFailed(dev) ==
    IF script = "snmp"
    THEN \A a \in {dev.hc_in, dev.hc_out, dev.lo_in, dev.lo_out} :
            a.raises \/ a.value = NOSUCHINSTANCE
    ELSE dev.oc.kind # "ok" /\ dev.ietf.kind # "ok"

\* C2: a poll cycle in which every adapter fails leaves the stored previous
\* sample and the stored previous timestamp as they were.
C2_FailedCycleKeepsPrevious ==
    [][Passed /\ AllAdaptersFailed(last'.dev)
       => /\ prev_stats' = prev_stats
          /\ prev_timestamp' = prev_timestamp
          /\ prev_time' = prev_time]_vars

\* C3: a rate computation with a previous sample and dt <= 0 yields no rate and
\* leaves the stored previous sample and timestamp as they were.
C3_DegenerateDtKeepsPrevious ==
    [][Cycled /\ HasPrevious /\ last'.now - stored_timestamp[1] <= 0
       => /\ last'.traffic_rate = NoRate
          /\ prev_stats' = prev_stats
          /\ prev_timestamp' = prev_timestamp
          /\ prev_time' = prev_time]_vars

\* C4: the first rate computation (nothing stored) yields no rate and records
\* the sample; the second, with dt > 0, yields a rate.
C4_FirstNoneSecondRate ==
    [][Cycled =>
        /\ ~HasPrevious
           => /\ last'.traffic_rate = NoRate
              /\ prev_stats' = last'.stats
        /\ (iteration = 1 /\ HasPrevious /\ last'.now - stored_timestamp[1] > 0)
           => last'.traffic_rate # NoRate]_vars

\* C5: with a previous sample, dt > 0 and a counter that did not go down, the
\* reported rate is (current - previous) * 8 / dt rounded toward zero, each
\* direction from its own counter.
C5_RateFormula ==
    [][(Cycled /\ HasPrevious /\ last'.now - stored_timestamp[1] > 0
          /\ Numeric(last'.stats) /\ Numeric(prev_stats))
       => /\ InOctets(last'.stats) >= InOctets(prev_stats)
             => last'.traffic_rate["in-bps"] =
                  Dec(((InOctets(last'.stats) - InOctets(prev_stats)) * 8)
                      \div (last'.now - stored_timestamp[1]))
          /\ OutOctets(last'.stats) >= OutOctets(prev_stats)
             => last'.traffic_rate["out-bps"] =
                  Dec(((OutOctets(last'.stats) - OutOctets(prev_stats)) * 8)
                      \div (last'.now - stored_timestamp[1]))]_vars

\* C6: over consecutive poll cycles at strictly increasing times, cycle k > 1
\* reports in-bps = (c_k - c_(k-1)) * 8 / (t_k - t_(k-1)), also when cycle 1 ran
\* at time 0 with in-octets 0.
C6_ConsecutiveCycles ==
    [][(Cycled /\ last.computed /\ last'.now > last.now
          /\ Numeric(last'.stats) /\ Numeric(last.stats))
       => last'.traffic_rate["in-bps"] =
            Dec(TowardZero((InOctets(last'.stats) - InOctets(last.stats)) * 8,
                           last'.now - last.now))]_vars

\* C7: a rate computation with dt > 0 leaves the sample it was given and the
\* time it ran at as the stored state, clamped or not; nothing else changes the
\* stored state (the first computation, which records its sample, apart).
C7_StateTracksAccepted ==
    [][/\ (Cycled /\ HasPrevious /\ last'.now - stored_timestamp[1] > 0)
          => /\ prev_stats' = last'.stats
             /\ stored_timestamp' = Some(last'.now)
       /\ <<prev_stats, prev_timestamp, prev_time>>' # <<prev_stats, prev_timestamp, prev_time>>
          => /\ Cycled
             /\ ~HasPrevious \/ last'.now - stored_timestamp[1] > 0]_vars

\* The fields of a sample that hold octet and packet-class counters.
CounterFields == {LowFields[i][1] : i \in 1..Len(LowFields)}
\* C8: an SNMP poll cycle reads the two HC octet counters first; it reads the
\* 32-bit octet and packet-class counters exactly when both HC reads ended in
\* the no-such-instance marker, the zero value or a failure; and when the HC
\* sample is used, the octet and packet-class fields hold what the HC counters
\* answered.
C8_FallbackOrder ==
    (last.polled /\ script = "snmp") =>
        LET reads == last.reads
            dev == last.dev
            bothZero == ZeroAnswer(dev.hc_in) /\ ZeroAnswer(dev.hc_out)
            lowReads == {i \in 1..Len(reads) :
                            reads[i][1] \in CounterFields /\ reads[i] \in Range(LowFields)}
        IN  /\ reads[1] = <<"in-octets", OID_ifHCInOctets>>
            /\ reads[2] = <<"out-octets", OID_ifHCOutOctets>>
            /\ bothZero => {reads[i] : i \in lowReads} = Range(LowFields)
            /\ ~bothZero =>
                /\ lowReads = {}
                /\ \A fld \in Range(HCOctetFields \o HCPacketFields) :
                      LET a == session_get(dev, fld[2])
                      IN  (~a.raises /\ a.value # NOSUCHINSTANCE) => last.stats[fld[1]] = a.value
\* A cycle that fell back: the HC reads gave the marker and zero, and the 32-bit
\* counters were read and supplied the octets.
C8_Witness ==
    /\ last.polled /\ script = "snmp"
    /\ last.dev.hc_in = Returns(NOSUCHINSTANCE) /\ last.dev.hc_out = Returns(Dec(0))
    /\ \E i \in 3..Len(last.reads) : last.reads[i] = <<"in-octets", OID_ifInOctets>>
    /\ last.stats["in-octets"] = Dec(MaxCounter)

\* An OpenConfig reply that yields Empty: an error, a missing element, or both
\* octet counters zero (a leaf that is absent reads as zero).
OcEmpty(reply) ==
    \/ reply.kind # "ok"
    \/ reply.in \in {Dec(0), Text("")} /\ reply.out \in {Dec(0), Text("")}
\* C9: a NETCONF poll cycle calls the OpenConfig adapter first, and the IETF
\* adapter only if the OpenConfig adapter yielded Empty.
C9_IetfOnlyAfterEmptyOpenConfig ==
    (last.polled /\ script = "netconf") =>
        /\ last.reads[1] = "openconfig"
        /\ (\E i \in 1..Len(last.reads) : last.reads[i] = "ietf") => OcEmpty(last.dev.oc)

\* The first adapter, in order of preference, whose sample has an octet
\* counter that is not zero.
FirstWithSignal(dev) ==
    IF script = "snmp"
    THEN IF ~(ZeroAnswer(dev.hc_in) /\ ZeroAnswer(dev.hc_out)) THEN "hc"
         ELSE IF ~(ZeroAnswer(dev.lo_in) /\ ZeroAnswer(dev.lo_out)) THEN "32-bit"
         ELSE "none"
    ELSE IF ~OcEmpty(dev.oc) THEN "openconfig"
         ELSE IF ~OcEmpty(dev.ietf) THEN "ietf"
         ELSE "none"
\* The adapter the accepted sample of the latest cycle came from.
AcceptedFrom ==
    IF script = "snmp"
    THEN IF \E i \in 1..Len(last.reads) : last.reads[i] = <<"in-octets", OID_ifInOctets>>
         THEN "32-bit" ELSE "hc"
    ELSE last.stats["model"].s
\* C10: the sample a poll cycle accepts comes from the first adapter in order
\* of preference whose octet counters are not both zero, and never has both
\* octet counters zero.
C10_AcceptedSampleHasSignal ==
    (last.polled /\ DictTruthy(last.stats)) =>
        /\ ~(last.stats["in-octets"] = Dec(0) /\ last.stats["out-octets"] = Dec(0))
        /\ AcceptedFrom = FirstWithSignal(last.dev)

\* The keys of the three packet-class counts of a direction, and of its total.
PacketClassKeys(dir) ==
    IF script = "snmp"
    THEN IF dir = "in"
         THEN <<"in-unicast-packets", "in-multicast-packets", "in-broadcast-packets">>
         ELSE <<"out-unicast-packets", "out-multicast-packets", "out-broadcast-packets">>
    ELSE IF dir = "in"
         THEN <<"in-unicast-pkts", "in-multicast-pkts", "in-broadcast-pkts">>
         ELSE <<"out-unicast-pkts", "out-multicast-pkts", "out-broadcast-pkts">>
TotalKey(dir) == IF dir = "in" THEN "in-packets" ELSE "out-packets"
\* C11: in every sample get_interface_stats returns, in each direction whose
\* three packet-class counts are numbers, the packet total is their sum.
C11_PacketTotals ==
    (last.polled /\ DictTruthy(last.stats)) =>
        \A dir \in {"in", "out"} :
            LET unicast == Get(last.stats, PacketClassKeys(dir)[1], Dec(0))
                multicast == Get(last.stats, PacketClassKeys(dir)[2], Dec(0))
                broadcast == Get(last.stats, PacketClassKeys(dir)[3], Dec(0))
            IN  (CanInt(unicast) /\ CanInt(multicast) /\ CanInt(broadcast))
                => Get(last.stats, TotalKey(dir), Dec(0))
                     = Dec(int(unicast) + int(multicast) + int(broadcast))

\* C12: a pass of the loop that no Ctrl+C and no write failure meets, and that
\* does not reach the duration, leaves the monitor polling, whatever values
\* and failures the device answered with.
C12_LoopSurvivesValues ==
    [][(Passed /\ last'.event = "none" /\ ~DurationReached(last'.current_time))
       => state' = "Polling"]_vars

\* C13: get_interface_stats never raises: it ends with a sample that has its
\* octet counters and packet totals, or with Empty.
C13_AdaptersNeverRaise ==
    (last.event # "int-fetch" /\ last.outcome # "none") =>
        /\ ~last.raised
        /\ DictTruthy(last.stats) =>
              {"in-octets", "out-octets", "in-packets", "out-packets"} \subseteq DOMAIN last.stats

\* C14: a pass in which every adapter declines yields Empty, does not end the
\* loop (no Ctrl+C, no write failure, duration not reached), and is followed
\* by a later pass unless the monitor is stopped.
C14_DeclinedCycleGoesOn ==
    /\ [][(Passed /\ last'.polled /\ AllAdaptersFailed(last'.dev))
          => /\ last'.stats = NoStats
             /\ (last'.event = "none" /\ ~DurationReached(last'.current_time))
                => state' = "Polling"]_vars
    /\ \A n \in 1..(MaxIterations - 1) :
          (passes = n /\ state = "Polling" /\ last.polled /\ AllAdaptersFailed(last.dev))
             ~> (passes > n \/ state = "Stopped")

\* C15: a pass in which no adapter produced a sample writes no record.
C15_NoSampleNoRecord ==
    [][(Passed /\ last'.polled /\ AllAdaptersFailed(last'.dev)) => f' = <<>>]_vars

\* The statistics blocks among the records rs.
StatisticsBlocks(rs) ==
    UNION {{rs[i].updates[j].values :
               j \in {k \in 1..Len(rs[i].updates) : rs[i].updates[k].block = "statistics"}} :
           i \in 1..Len(rs)}
\* C16: a pass writes a traffic-rate block only if a previous sample is stored
\* and dt > 0; the first pass that has a sample writes a statistics block and
\* no traffic-rate block.
C16_RateBlockOnlyIfDerivable ==
    [][Passed =>
        /\ RateBlocks(f') # {} => (HasPrevious /\ last'.now - stored_timestamp[1] > 0)
        /\ (~HasPrevious /\ last'.outcome = "completed" /\ DictTruthy(last'.stats))
           => (StatisticsBlocks(f') # {} /\ RateBlocks(f') = {})]_vars

\* The events that are a failure to write a record, and those that are a stop
\* signal.
WriteFailures == {"write-1", "write-2"}
StopSignals == {"int-fetch", "int-mid"}
\* C17: a pass in which a write to the output file fails ends the polling; and
\* polling ends only by a stop signal, by the duration reached at the end of a
\* pass, or by a write failure.
C17_WriteFailureIsFatal ==
    /\ [][(Passed /\ last'.event \in WriteFailures /\ last'.outcome = "Exception")
          => state' = "Stopped"]_vars
    /\ [][(state = "Polling" /\ state' = "Stopped")
          => \/ ~Passed
             \/ last'.event \in StopSignals
             \/ last'.event \in WriteFailures
             \/ last'.outcome = "completed" /\ DurationReached(last'.current_time)]_vars

\* C18: once the monitor has stopped it stays stopped: no pass of the loop
\* runs (no adapter is called), nothing is written, the stored sample and
\* timestamp do not change; and the output file it had opened is closed with
\* nothing left unflushed.
C18_StoppedIsTerminal ==
    /\ [][state = "Stopped"
          => /\ state' = "Stopped"
             /\ UNCHANGED <<passes, iteration, last, f, prev_stats, prev_timestamp, prev_time,
                            sink, dirty>>]_vars
    /\ []((state = "Stopped" /\ sink # "unopened") => (sink = "closed" /\ ~dirty))
\* The monitor stopped by its duration after a pass that wrote its records.
C18_Witness ==
    /\ state = "Stopped" /\ sink = "closed" /\ ~dirty
    /\ last.outcome = "completed" /\ DurationReached(last.current_time)
    /\ f # <<>> /\ prev_stats = last.stats

\* C19: a pass of the loop during which the stop signal arrives runs to its
\* end: the sample is fetched, and when there is one its statistics and its
\* traffic-rate block are both written and the stored sample is the new one.
C19_StopSignalLetsCycleComplete ==
    [][(Passed /\ last'.event \in StopSignals)
        => /\ last'.polled
           /\ DictTruthy(last'.stats)
              => /\ StatisticsBlocks(f') # {} /\ RateBlocks(f') # {}
                 /\ last'.computed /\ prev_stats' = last'.stats]_vars

\* C20: a pass after which the loop goes on sleeps max(0, interval - elapsed),
\* whether the body completed or raised an error that was caught; a completed
\* pass that overran the interval does not stop the loop.
C20_SleepIsIntervalMinusElapsed ==
    /\ [][(Passed /\ state' = "Polling")
          => last'.slept = Some(IF POLL_INTERVAL - last'.elapsed > 0
                                THEN POLL_INTERVAL - last'.elapsed ELSE 0)]_vars
    /\ [][(Passed /\ last'.outcome = "completed" /\ last'.elapsed >= POLL_INTERVAL
             /\ ~DurationReached(last'.current_time))
          => state' = "Polling"]_vars

\* An answer that says the counter is not there: a timeout or error, or one of
\* the two markers an agent answers with for an object it does not have.
MissingAnswer(a) == a.raises \/ a.value \in {NOSUCHINSTANCE, NOSUCHOBJECT}
\* The packet-class, error and discard fields of an SNMP sample.
SnmpClassFields ==
    {HCPacketFields[i][1] : i \in 1..Len(HCPacketFields)}
    \cup {"in-discarded-packets", "in-error-packets", "out-discarded-packets",
          "out-error-packets"}
\* The reply the accepted NETCONF sample was parsed from.
NcSource == IF last.stats["model"] = Text("ietf") THEN last.dev.ietf ELSE last.dev.oc
\* The adapter whose sample was accepted obtained both octet counters.
OctetsObtained ==
    /\ last.polled /\ ~last.raised /\ DictTruthy(last.stats)
    /\ IF script = "snmp"
       THEN IF AcceptedFrom = "hc"
            THEN ~MissingAnswer(last.dev.hc_in) /\ ~MissingAnswer(last.dev.hc_out)
            ELSE ~MissingAnswer(last.dev.lo_in) /\ ~MissingAnswer(last.dev.lo_out)
       ELSE /\ last.stats["model"] \in {Text("openconfig"), Text("ietf")}
            /\ NcSource.kind = "ok" /\ CanInt(NcSource.in) /\ CanInt(NcSource.out)
\* C21: a sample whose octet counters were obtained holds, in each
\* packet-class, error and discard field, zero where the device did not give
\* the counter and the value the device gave everywhere else.
C21_MissingFieldsAreZero ==
    OctetsObtained =>
        IF script = "snmp"
        THEN \A i \in 1..Len(last.reads) :
                LET fld == last.reads[i][1]
                    a == session_get(last.dev, last.reads[i][2])
                IN  fld \in SnmpClassFields
                    => last.stats[fld] = IF MissingAnswer(a) THEN Dec(0) ELSE a.value
        ELSE \A leaf \in OcLeaves \ {"in-octets", "out-octets"} :
                last.stats[leaf] = IF LeafText(NcSource, leaf) = Text("") THEN Dec(0)
                                   ELSE LeafText(NcSource, leaf)

\* The adapter that produced the octet counters of the latest sample, worked
\* out from the calls that were made and what they returned.
Producer ==
    IF script = "snmp" THEN AcceptedFrom
    ELSE IF \E i \in 1..Len(last.reads) : last.reads[i] = "ietf"
    THEN IF DictTruthy(get_interface_stats_ietf(last.dev.ietf, interface)) THEN "ietf"
         ELSE "none"
    ELSE "openconfig"
\* C22: every statistics block written by a pass has a model tag, and the tag
\* names the adapter that produced the octet counters of the block.
C22_SourceModelTag ==
    \A block \in StatisticsBlocks(f) :
        /\ "model" \in DOMAIN block
        /\ Producer # "none"
        /\ block["model"] = Text(Producer)

\* A decimal string: digits only.
DecimalString(v) == v.dec /\ v.n >= 0
\* The keys of a values mapping that hold no counter: names, states, the tag.
DescriptiveKeys ==
    {"interface-name", "interface-description", "operational-status", "oper-status", "model"}
\* C23: in every record written, every counter of the statistics block and
\* every rate of the traffic-rate block is a decimal string.
C23_ValuesAreDecimalStrings ==
    \A block \in StatisticsBlocks(f) \cup RateBlocks(f) :
        \A key \in DOMAIN block \ DescriptiveKeys : DecimalString(block[key])

\* The field names of the statistics block the SNMP monitor writes: the keys
\* of the sample, which format_output passes on as they are.
SnmpStatisticsNames == UNION {DOMAIN SnmpPolls[dev].stats : dev \in SnmpDevices}
\* The octet counters the preferred adapter of the running monitor reads from
\* the snapshot dev: the HC counters, the OpenConfig leaves.
PreferredOctets(dev) ==
    IF script = "snmp" THEN <<dev.hc_in.value, dev.hc_out.value>> ELSE <<dev.oc.in, dev.oc.out>>
\* C24: the statistics block a monitor writes has the field names of the SNMP
\* monitor's block and of the NETCONF monitor's block alike; its octet fields
\* hold the device's counters whichever protocol read them; the traffic-rate
\* block has the fields in-bps and out-bps.
C24_SameCanonicalRecord ==
    /\ \A block \in StatisticsBlocks(f) :
          /\ DOMAIN block = SnmpStatisticsNames
          /\ DOMAIN block = StatisticsNames
          /\ LET octets == PreferredOctets(last.dev)
             IN  (~AllAdaptersFailed(last.dev) /\ CanInt(octets[1]) /\ CanInt(octets[2])
                    /\ int(octets[1]) > 0)
                 => (block["in-octets"] = octets[1] /\ block["out-octets"] = octets[2])
    /\ \A block \in RateBlocks(f) : DOMAIN block = {"in-bps", "out-bps"}

\* C25: while the output file is open, between the passes of the loop (while
\* it sleeps, before the next call to the device), no record that was written
\* is still unflushed.
C25_FlushedAfterEachWrite == (sink = "open") => ~dirty

\* The interface a record's paths name.
PathInterfaces(rs) ==
    UNION {{rs[i].updates[j].Path[3] : j \in 1..Len(rs[i].updates)} : i \in 1..Len(rs)}
\* The interface of the running monitor: the SNMP index, the NETCONF name.
Identity == IF script = "snmp" THEN interface_index ELSE interface
\* C26: from the moment the monitor is polling, the interface index and the
\* interface name stay what they are; every record a pass writes names that
\* interface in its paths, and the NETCONF sample of a pass is the answer to
\* the request for that interface.
C26_InterfaceIdentityFixed ==
    /\ [][state = "Polling"
          => (interface' = interface /\ interface_index' = interface_index)]_vars
    /\ [](PathInterfaces(f) \subseteq {Identity})
    /\ []((script = "netconf" /\ last.polled /\ ~last.raised)
            => last.stats = NetconfPolls[last.dev, interface].stats)
\* The NETCONF monitor polled, twice, an interface other than the default one
\* (discovery had listed nothing), and its record names it.
C26_Witness ==
    /\ script = "netconf" /\ passes >= 2 /\ interface = "Ethernet2"
    /\ last.polled /\ f # <<>> /\ PathInterfaces(f) = {"Ethernet2"}

\* The samples the NETCONF adapters returned in the latest pass, in the order
\* they were called.
Returned ==
    [i \in 1..Len(last.reads) |->
        IF last.reads[i] = "ietf" THEN get_interface_stats_ietf(last.dev.ietf, interface)
        ELSE get_interface_stats_openconfig(last.dev.oc)]
\* A sample carries signal: one of its octet counters is a number other than 0.
HasSignal(st) ==
    /\ DictTruthy(st)
    /\ \E k \in {"in-octets", "out-octets"} :
          CanInt(Get(st, k, Dec(0))) /\ int(Get(st, k, Dec(0))) # 0
\* C27: when a NETCONF adapter returned a sample with signal, the sample the
\* pass accepts is not the synthesized 'no-data' sample.
C27_SignalNotDiscarded ==
    (script = "netconf" /\ last.polled /\ ~last.raised
       /\ \E i \in 1..Len(last.reads) : HasSignal(Returned[i]))
    => last.stats["model"] # Text("no-data")

\* The counter source of the sample a pass accepted: for SNMP the branch of
\* get_interface_stats that read the octets, for NETCONF the model the sample
\* is tagged with.
SourceOf(pass) ==
    IF script = "snmp"
    THEN IF \E i \in 1..Len(pass.reads) : pass.reads[i] = <<"in-octets", OID_ifInOctets>>
         THEN "32-bit" ELSE "hc"
    ELSE pass.stats["model"].s
\* The rate of a pass that subtracted nothing.
ZeroRate == Dict({<<"in-bps", Dec(0)>>, <<"out-bps", Dec(0)>>})
\* C28: a pass whose sample comes from another counter source than the stored
\* sample of the pass before it reports no rate drawn from the two: the octet
\* counts of different sources are not subtracted.
C28_RateFromOneSource ==
    [][(Cycled /\ last.computed /\ prev_stats = last.stats
          /\ DictTruthy(last.stats) /\ DictTruthy(last'.stats)
          /\ SourceOf(last) # SourceOf(last'))
       => last'.traffic_rate \in {NoRate, ZeroRate}]_vars

\* C29: after one rate computation on a malformed sample (an octet counter
\* that is no number) that followed one on a well-formed sample, the next
\* computation, on a well-formed sample later than both and with counters that
\* did not go down, reports the rate between the two well-formed samples.
C29_MalformedCostsOneCycle ==
    [][(Cycled /\ last.computed /\ ~Numeric(last.stats)
          /\ last.good.since = 1 /\ DictTruthy(last.good.stats)
          /\ Numeric(last'.stats)
          /\ last'.now > last.now /\ last.now > last.good.now
          /\ InOctets(last'.stats) >= InOctets(last.good.stats)
          /\ OutOctets(last'.stats) >= OutOctets(last.good.stats))
       => /\ last'.traffic_rate # NoRate
          /\ last'.traffic_rate["in-bps"] =
               Dec(TowardZero((InOctets(last'.stats) - InOctets(last.good.stats)) * 8,
                              last'.now - last.good.now))
          /\ last'.traffic_rate["out-bps"] =
               Dec(TowardZero((OutOctets(last'.stats) - OutOctets(last.good.stats)) * 8,
                              last'.now - last.good.now))]_vars

\* C30: with a duration given, a pass of the loop that started at or after
\* start_time + duration is the last one: the monitor stops at its end,
\* whether the pass completed or raised an error, so no pass starts later.
C30_DurationBoundsTheLoop ==
    [][(Passed /\ NumTruthy(duration) /\ duration[1] > 0
          /\ last'.current_time >= start_time + duration[1])
       => state' = "Stopped"]_vars

\* The timestamps of the records rs.
Timestamps(rs) == {rs[i].timestamp : i \in 1..Len(rs)}
\* C31: the records a pass writes carry as timestamp the time the pass handed
\* to the rate computation; and the dt of that computation, against the sample
\* the pass before supplied, is the difference of the timestamps of the two
\* passes' records.
C31_DtIsTimestampDifference ==
    [][(Cycled /\ f' # <<>>)
       => /\ Timestamps(f') = {last'.now}
          /\ (last.computed /\ f # <<>> /\ HasPrevious /\ prev_stats = last.stats)
             => \A t1 \in Timestamps(f), t2 \in Timestamps(f') :
                   last'.now - stored_timestamp[1] = t2 - t1]_vars

\* C32: a monitor whose session could not be made or whose connection test
\* failed runs no pass of its loop, writes no record, and leaves the output
\* file unopened.
C32_FailedStartPollsNothing ==
    (state # "Idle" /\ (~startup.connected \/ ~startup.tested))
    => /\ state = "Stopped"
       /\ passes = 0 /\ ~last.polled /\ last.reads = <<>>
       /\ f = <<>> /\ sink = "unopened"

\* Whether an SNMP cycle whose reads are recorded took the 32-bit branch.
FellBack(pass) ==
    \E i \in 1..Len(pass.reads) : pass.reads[i] = <<"in-octets", OID_ifInOctets>>

\* C33: within one SNMP poll cycle two reads of different statistics fields
\* go to different OIDs, whichever branch the cycle took.
C33_DistinctFieldsDistinctOids ==
    (script = "snmp" /\ last.polled)
    => \A i, j \in 1..Len(last.reads) :
          last.reads[i][1] # last.reads[j][1] => last.reads[i][2] # last.reads[j][2]

\* What a record is about: its block of values and the interface in its path.
Block(rec) == rec.updates[1].block
InterfaceOf(rec) == rec.updates[1].Path[3]

\* Every traffic-rate record among rs comes right after a statistics record
\* with its timestamp and its interface.
RatesFollowStatistics(rs) ==
    \A i \in 1..Len(rs) :
        Block(rs[i]) = "traffic-rate"
        => /\ i > 1
           /\ Block(rs[i - 1]) = "statistics"
           /\ rs[i - 1].timestamp = rs[i].timestamp
           /\ InterfaceOf(rs[i - 1]) = InterfaceOf(rs[i])

\* C34: in the SNMP output, whatever passes, errors and interrupts came before,
\* every traffic-rate record comes right after a statistics record with the
\* same timestamp and interface; the records of a pass carry the clock reading
\* of that pass, and from one pass to the next the readings and the record
\* timestamps do not decrease unless the clock was set back in between.
C34_RatesPairedAndTimeOrdered ==
    /\ [](script = "snmp"
          => /\ RatesFollowStatistics(f)
             /\ Timestamps(f) \subseteq {last.current_time})
    /\ [][(script = "snmp" /\ Passed /\ passes >= 1 /\ last.current_time <= clock)
          => /\ last.current_time <= last'.current_time
             /\ \A t1 \in Timestamps(f), t2 \in Timestamps(f') : t1 <= t2]_vars

\* An SNMP pass after an earlier one and an error, that wrote both records at a
\* later time.
C34_Witness ==
    /\ script = "snmp" /\ passes = 3 /\ last.outcome = "completed"
    /\ Len(f) = 2 /\ Block(f[1]) = "statistics" /\ Block(f[2]) = "traffic-rate"
    /\ f[2].timestamp > 0

====
